---------------------------- MODULE Spec2Model ----------------------------
(***************************************************************************)
(* The access-log reader of crabtrics (src/src/access_logs.rs): LogReader, *)
(* its byte scanner, parse_log_date, and the loop of aggregate_logs that   *)
(* drives read_one (src/src/main.rs).                                      *)
(*                                                                         *)
(* A byte is a one-character string; a byte string is a sequence of them.  *)
(* BAD stands for the byte 0xFF, which no valid UTF-8 text contains.       *)
(***************************************************************************)
EXTENDS Integers, Sequences, FiniteSets, TLC

VARIABLES
    source,     \* LogReader.source: the bytes not read yet
    scratch,    \* LogReader.scratch
    pc,         \* where the caller is: "call", "body", "done", "failed", "aborted"
    result,     \* what the last call returned
    returned,   \* history: the entries returned so far, fields copied out
    kept,       \* aggregate_logs: number of entries that passed the filter
    fed         \* history: what the source was built from

vars == <<source, scratch, pc, result, returned, kept, fed>>

SP == " "
NL == "\n"
Q == "\""
BAD == "\\xFF"

DigitChars == <<"0", "1", "2", "3", "4", "5", "6", "7", "8", "9">>

IsDigit(c) == \E i \in 1..10 : DigitChars[i] = c

DigitVal(c) == (CHOOSE i \in 1..10 : DigitChars[i] = c) - 1

\* `let x = v;` followed by F(x): v is evaluated once, then bound
Let(v, F(_)) == CHOOSE y \in {F(x) : x \in {v}} : TRUE

\* &bytes[a..b]
Slice(s, a, b) == SubSeq(s, a + 1, b)

\* &bytes[a..]
From(s, a) == SubSeq(s, a + 1, Len(s))

(***************************************************************************)
(* The byte scanner.  A reader is [source, scratch].                       *)
(***************************************************************************)

\* Vec::clear on the scratch buffer
Clear(r) == [r EXCEPT !.scratch = <<>>]

\* read_byte: Err(UnexpectedEof) at the end of the source, else the byte,
\* which is pushed on scratch
ReadByte(r) ==
    IF r.source = <<>>
    THEN [ok |-> FALSE, byte |-> "", r |-> r]
    ELSE [ok |-> TRUE, byte |-> Head(r.source),
          r |-> [source |-> Tail(r.source),
                 scratch |-> Append(r.scratch, Head(r.source))]]

\* the number of bytes scan_until reads: up to and including the first one
\* equal to `byte`, or all of them when there is none
ScanLength(src, byte) ==
    IF \E i \in 1..Len(src) : src[i] = byte
    THEN CHOOSE i \in 1..Len(src) : src[i] = byte /\ \A j \in 1..(i - 1) : src[j] # byte
    ELSE Len(src)

\* scan_until: read_byte until a byte equals `byte` or the source ends
ScanUntil(r, byte) ==
    Let(ScanLength(r.source, byte), LAMBDA n :
        [ok |-> n > 0 /\ r.source[n] = byte,
         off |-> Len(r.scratch) + n - 1,
         r |-> [source |-> From(r.source, n),
                scratch |-> r.scratch \o SubSeq(r.source, 1, n)]])

\* the loop `for byte in &s[1..]` of scan_until_slice
RECURSIVE MatchRest(_, _)
MatchRest(r, rest) ==
    IF rest = <<>> THEN [st |-> "matched", r |-> r]
    ELSE Let(ReadByte(r), LAMBDA rb :
             IF ~rb.ok THEN [st |-> "eof", r |-> rb.r]
             ELSE IF Head(rest) # rb.byte THEN [st |-> "mismatch", r |-> rb.r]
             ELSE MatchRest(rb.r, Tail(rest)))

\* the offset scan_until_slice returns once s is matched
MatchOffsetEnd(r, s) == Len(r.scratch)

MatchOffset(r, s) == Len(r.scratch) - Len(s)

RECURSIVE ScanUntilSlice(_, _)
ScanUntilSlice(r, s) ==
    Let(ScanUntil(r, s[1]), LAMBDA su :
        IF ~su.ok THEN [ok |-> FALSE, off |-> 0, r |-> su.r]
        ELSE Let(MatchRest(su.r, Tail(s)), LAMBDA m :
                 CASE m.st = "eof" -> [ok |-> FALSE, off |-> 0, r |-> m.r]
                   [] m.st = "mismatch" -> ScanUntilSlice(m.r, s)
                   [] OTHER -> [ok |-> TRUE, off |-> MatchOffset(m.r, s), r |-> m.r]))

(***************************************************************************)
(* The library conversions read_one calls, modelled by what they do on     *)
(* byte strings.                                                           *)
(***************************************************************************)

\* str::from_utf8: every byte of the model but BAD is ASCII
IsUtf8(bytes) == \A i \in 1..Len(bytes) : bytes[i] # BAD

\* the longest prefix of ASCII digits
RECURSIVE DigitPrefixLen(_)
DigitPrefixLen(bytes) ==
    IF bytes # <<>> /\ IsDigit(Head(bytes)) THEN 1 + DigitPrefixLen(Tail(bytes)) ELSE 0

\* the value of at most four digits
RECURSIVE Num(_)
Num(digs) ==
    IF digs = <<>> THEN 0
    ELSE 10 * Num(SubSeq(digs, 1, Len(digs) - 1)) + DigitVal(digs[Len(digs)])

(* <u16 as FromStr>::from_str and <u32 as FromStr>::from_str.  The value is  *)
(* kept in two 16-bit limbs <<hi, lo>>, so that the 32-bit width is exact:  *)
(* hiMax is 0 for u16 and 2^16 - 1 for u32.  As in core::num, an empty      *)
(* string and a lone sign are errors, one leading + is accepted, and each   *)
(* step is a checked multiply-and-add.                                      *)
LimbBase == 2 ^ 16

U16Hi == 0

U32Hi == LimbBase - 1

\* a step that wraps around instead of reporting the overflow
MulAddWrapping(v, d, hiMax) ==
    LET lo == v[2] * 10 + d
        hi == v[1] * 10 + (lo \div LimbBase)
    IN [ok |-> TRUE, val |-> <<hi % (hiMax + 1), lo % LimbBase>>]

\* checked_mul(10) then checked_add(d)
MulAdd(v, d, hiMax) ==
    LET lo == v[2] * 10 + d
        hi == v[1] * 10 + (lo \div LimbBase)
    IN IF hi > hiMax THEN [ok |-> FALSE, val |-> v]
       ELSE [ok |-> TRUE, val |-> <<hi, lo % LimbBase>>]

RECURSIVE ParseDigits(_, _, _)
ParseDigits(bytes, v, hiMax) ==
    IF bytes = <<>> THEN [ok |-> TRUE, val |-> v]
    ELSE IF ~IsDigit(Head(bytes)) THEN [ok |-> FALSE, val |-> v]
    ELSE Let(MulAdd(v, DigitVal(Head(bytes)), hiMax), LAMBDA step :
             IF ~step.ok THEN [ok |-> FALSE, val |-> v]
             ELSE Let(Tail(bytes), LAMBDA rest : ParseDigits(rest, step.val, hiMax)))

ParseUnsigned(bytes, hiMax) ==
    IF bytes = <<>> THEN [ok |-> FALSE, val |-> <<0, 0>>]
    ELSE IF Len(bytes) = 1 /\ bytes[1] \in {"+", "-"} THEN [ok |-> FALSE, val |-> <<0, 0>>]
    ELSE IF bytes[1] = "+" THEN ParseDigits(Tail(bytes), <<0, 0>>, hiMax)
    ELSE ParseDigits(bytes, <<0, 0>>, hiMax)

(* <IpAddr as FromStr>::from_str, the IPv4 half: four groups of one to     *)
(* three digits separated by dots, no group above 255 or with a leading    *)
(* zero, and nothing after them.  The requestors of this model hold no     *)
(* colon, so the IPv6 half never accepts one of them.                      *)
ReadOctet(bytes) ==
    LET n == DigitPrefixLen(bytes) IN
    IF n = 0 \/ n > 3 THEN [ok |-> FALSE, val |-> 0, rest |-> bytes]
    ELSE IF n > 1 /\ bytes[1] = "0" THEN [ok |-> FALSE, val |-> 0, rest |-> bytes]
    ELSE IF Num(SubSeq(bytes, 1, n)) > 255 THEN [ok |-> FALSE, val |-> 0, rest |-> bytes]
    ELSE [ok |-> TRUE, val |-> Num(SubSeq(bytes, 1, n)), rest |-> From(bytes, n)]

RECURSIVE ReadOctets(_, _)
ReadOctets(bytes, n) ==
    Let(ReadOctet(bytes), LAMBDA o :
        IF ~o.ok THEN [ok |-> FALSE, val |-> <<>>, rest |-> bytes]
        ELSE IF n = 1 THEN [ok |-> TRUE, val |-> <<o.val>>, rest |-> o.rest]
        ELSE IF o.rest = <<>> \/ Head(o.rest) # "."
             THEN [ok |-> FALSE, val |-> <<>>, rest |-> bytes]
        ELSE Let(ReadOctets(Tail(o.rest), n - 1), LAMBDA more :
                 IF ~more.ok THEN more
                 ELSE [ok |-> TRUE, val |-> <<o.val>> \o more.val, rest |-> more.rest]))

ParseIpAddr(bytes) ==
    LET a == ReadOctets(bytes, 4) IN
    IF a.ok /\ a.rest = <<>> THEN [ok |-> TRUE, val |-> a.val]
    ELSE [ok |-> FALSE, val |-> <<>>]

(* str::split_once(' ') on the text scratch[lo..hi]: the ranges before and  *)
(* after the first space.                                                   *)
SplitOnce(buf, lo, hi) ==
    IF \E i \in lo..(hi - 1) : buf[i + 1] = SP
    THEN LET i == CHOOSE i \in lo..(hi - 1) :
                      /\ buf[i + 1] = SP
                      /\ \A j \in lo..(i - 1) : buf[j + 1] # SP
         IN [ok |-> TRUE, left |-> <<lo, i>>, right |-> <<i + 1, hi>>]
    ELSE [ok |-> FALSE, left |-> <<lo, lo>>, right |-> <<lo, lo>>]

(***************************************************************************)
(* parse_log_date.  Parsed::parse_component of the time crate, for the     *)
(* default modifiers the code passes: two digits for day, hour, minute,    *)
(* second and the offset parts, four for the year, an optional sign before *)
(* year and offset hour, and the English three-letter month.               *)
(***************************************************************************)

MonthNames ==
    << <<"J", "a", "n">>, <<"F", "e", "b">>, <<"M", "a", "r">>, <<"A", "p", "r">>,
       <<"M", "a", "y">>, <<"J", "u", "n">>, <<"J", "u", "l">>, <<"A", "u", "g">>,
       <<"S", "e", "p">>, <<"O", "c", "t">>, <<"N", "o", "v">>, <<"D", "e", "c">> >>

NoComponent(bytes) == [ok |-> FALSE, val |-> 0, neg |-> FALSE, rest |-> bytes]

ExactlyNDigits(bytes, n) ==
    IF Len(bytes) >= n /\ \A i \in 1..n : IsDigit(bytes[i])
    THEN [ok |-> TRUE, val |-> Num(SubSeq(bytes, 1, n)), neg |-> FALSE, rest |-> From(bytes, n)]
    ELSE NoComponent(bytes)

Signed(bytes, n) ==
    IF bytes # <<>> /\ bytes[1] \in {"+", "-"}
    THEN LET d == ExactlyNDigits(Tail(bytes), n) IN
         IF ~d.ok THEN NoComponent(bytes)
         ELSE IF bytes[1] = "-" THEN [d EXCEPT !.val = 0 - d.val, !.neg = TRUE]
         ELSE d
    ELSE ExactlyNDigits(bytes, n)

ParseComponent(bytes, component) ==
    CASE component = "Day" ->
            LET d == ExactlyNDigits(bytes, 2) IN
            IF d.ok /\ d.val = 0 THEN NoComponent(bytes) ELSE d
      [] component = "Month" ->
            IF Len(bytes) >= 3 /\ \E m \in 1..12 : MonthNames[m] = SubSeq(bytes, 1, 3)
            THEN [ok |-> TRUE, neg |-> FALSE, rest |-> From(bytes, 3),
                  val |-> CHOOSE m \in 1..12 : MonthNames[m] = SubSeq(bytes, 1, 3)]
            ELSE NoComponent(bytes)
      [] component = "Year" -> Signed(bytes, 4)
      [] component = "OffsetHour" -> Signed(bytes, 2)
      [] OTHER -> ExactlyNDigits(bytes, 2)

IsLeapYear(y) == y % 4 = 0 /\ (y % 100 # 0 \/ y % 400 = 0)

DaysInMonth(y, m) ==
    IF m = 2 THEN (IF IsLeapYear(y) THEN 29 ELSE 28)
    ELSE IF m \in {4, 6, 9, 11} THEN 30 ELSE 31

\* OffsetDateTime: TryFrom<Parsed>, the range checks on the components
TryIntoDateTime(p) ==
    /\ p.day <= DaysInMonth(p.year, p.month)
    /\ p.hour <= 23 /\ p.minute <= 59 /\ p.second <= 59
    /\ p.offset_hour >= -23 /\ p.offset_hour <= 23 /\ p.offset_minute <= 59

NoTime ==
    [year |-> 0, month |-> 0, day |-> 0, hour |-> 0, minute |-> 0, second |-> 0,
     offset_hour |-> 0, offset_minute |-> 0]

DateErr(what) == [kind |-> "Err", err |-> what, time |-> NoTime]

\* time_bytes[0] on an empty slice: index out of bounds
DatePanic == [kind |-> "Panic", err |-> "index out of bounds", time |-> NoTime]

\* the check `if time_bytes[0] != sep { bail!(..) }`: "" when it passes
Separator(time_bytes, sep) ==
    IF time_bytes = <<>> THEN "panic"
    ELSE IF time_bytes[1] # sep THEN "bail"
    ELSE ""

parse_log_date(bytes) ==
    Let(ParseComponent(bytes, "Day"), LAMBDA day :
    IF ~day.ok THEN DateErr("day") ELSE
    IF Separator(day.rest, "/") = "panic" THEN DatePanic ELSE
    IF Separator(day.rest, "/") = "bail" THEN DateErr("missing / after day") ELSE
    Let(ParseComponent(Tail(day.rest), "Month"), LAMBDA month :
    IF ~month.ok THEN DateErr("month") ELSE
    IF Separator(month.rest, "/") = "panic" THEN DatePanic ELSE
    IF Separator(month.rest, "/") = "bail" THEN DateErr("missing / after month") ELSE
    Let(ParseComponent(Tail(month.rest), "Year"), LAMBDA year :
    IF ~year.ok THEN DateErr("year") ELSE
    IF Separator(year.rest, ":") = "panic" THEN DatePanic ELSE
    IF Separator(year.rest, ":") = "bail" THEN DateErr("missing : after year") ELSE
    Let(ParseComponent(Tail(year.rest), "Hour"), LAMBDA hour :
    IF ~hour.ok THEN DateErr("hour") ELSE
    IF Separator(hour.rest, ":") = "panic" THEN DatePanic ELSE
    IF Separator(hour.rest, ":") = "bail" THEN DateErr("missing : after hour") ELSE
    Let(ParseComponent(Tail(hour.rest), "Minute"), LAMBDA minute :
    IF ~minute.ok THEN DateErr("minute") ELSE
    IF Separator(minute.rest, ":") = "panic" THEN DatePanic ELSE
    IF Separator(minute.rest, ":") = "bail" THEN DateErr("missing : after minute") ELSE
    Let(ParseComponent(Tail(minute.rest), "Second"), LAMBDA second :
    IF ~second.ok THEN DateErr("second") ELSE
    IF Separator(second.rest, SP) = "panic" THEN DatePanic ELSE
    IF Separator(second.rest, SP) = "bail" THEN DateErr("missing space after second") ELSE
    Let(ParseComponent(Tail(second.rest), "OffsetHour"), LAMBDA offh :
    IF ~offh.ok THEN DateErr("offset hour") ELSE
    Let(ParseComponent(offh.rest, "OffsetMinute"), LAMBDA offm :
    IF ~offm.ok THEN DateErr("offset minute") ELSE
    IF offm.rest # <<>> THEN DateErr("extra trailing data") ELSE
    LET parsed == [year |-> year.val, month |-> month.val, day |-> day.val,
                   hour |-> hour.val, minute |-> minute.val, second |-> second.val,
                   offset_hour |-> offh.val,
                   offset_minute |-> IF offh.neg THEN 0 - offm.val ELSE offm.val]
    IN IF ~TryIntoDateTime([parsed EXCEPT !.offset_minute = offm.val])
       THEN DateErr("component range")
       ELSE [kind |-> "Ok", err |-> "", time |-> parsed]))))))))

(***************************************************************************)
(* LogReader::read_one.  The text fields of a LogEntry borrow from scratch: *)
(* each is a range <<start, end>> of it (<<0, 0>> for the literal "").      *)
(***************************************************************************)

NoEntry ==
    [requestor |-> <<>>, time |-> NoTime, method |-> <<0, 0>>, path |-> <<0, 0>>,
     response_code |-> 0, bytes_sent |-> <<0, 0>>, referrer |-> <<0, 0>>,
     user_agent |-> <<0, 0>>]

\* what a call hands back, with the reader it leaves and two of its locals
Out(kind, err, entry, r, request_end, response_code) ==
    [kind |-> kind, err |-> err, entry |-> entry, r |-> r,
     request_end |-> request_end, response_code |-> response_code]

Fail(err, r) == Out("Err", err, NoEntry, r, -1, -1)

\* a read that hits the end of the source and is taken for a clean end
TruncatedAsEnd(r) == Out("EndOfStream", "", NoEntry, r, -1, -1)

\* `?` on the io::Error of a scan: ErrorKind::UnexpectedEof reaches the caller
Truncated(r) == Fail("StreamTruncated", r)

\* parse_log_date(..).unwrap() on an Err, or the panic inside parse_log_date
Panic(r) == Out("Panic", "InvalidTimestamp", NoEntry, r, -1, -1)

\* `Ok(b'\n')`: an empty line
IsEmptyLineNever(byte) == FALSE

IsEmptyLine(byte) == byte = NL

\* the method and path of lines 77-83, without the test of the status
MethodPathNo400(buf, request_end, response_code) ==
    IF request_end = 0 THEN [ok |-> TRUE, method |-> <<0, 0>>, path |-> <<0, 0>>]
    ELSE LET a == SplitOnce(buf, 0, request_end) IN
         IF ~a.ok THEN [ok |-> FALSE, method |-> <<0, 0>>, path |-> <<0, 0>>]
         ELSE LET b == SplitOnce(buf, a.right[1], a.right[2]) IN
              IF ~b.ok THEN [ok |-> FALSE, method |-> <<0, 0>>, path |-> <<0, 0>>]
              ELSE [ok |-> TRUE, method |-> a.left, path |-> b.left]

MethodPath(buf, request_end, response_code) ==
    IF request_end = 0 \/ response_code = 400
    THEN [ok |-> TRUE, method |-> <<0, 0>>, path |-> <<0, 0>>]
    ELSE LET a == SplitOnce(buf, 0, request_end) IN
         IF ~a.ok THEN [ok |-> FALSE, method |-> <<0, 0>>, path |-> <<0, 0>>]
         ELSE LET b == SplitOnce(buf, a.right[1], a.right[2]) IN
              IF ~b.ok THEN [ok |-> FALSE, method |-> <<0, 0>>, path |-> <<0, 0>>]
              ELSE [ok |-> TRUE, method |-> a.left, path |-> b.left]

\* lines 54-94: one record, its first byte already in scratch
ParseRecord(r) ==
    Let(ScanUntilSlice(r, <<SP, "-", SP>>), LAMBDA a :
    IF ~a.ok THEN Truncated(a.r) ELSE
    LET requestor_end == a.off IN
    IF ~IsUtf8(Slice(a.r.scratch, 0, requestor_end)) THEN Fail("InvalidText", a.r) ELSE
    Let(ParseIpAddr(Slice(a.r.scratch, 0, requestor_end)), LAMBDA requestor :
    IF ~requestor.ok THEN Fail("InvalidAddress", a.r) ELSE
    Let(ScanUntil(a.r, "["), LAMBDA b :
    IF ~b.ok THEN Truncated(b.r) ELSE
    Let(ScanUntilSlice(Clear(b.r), <<"]", SP, Q>>), LAMBDA c :
    IF ~c.ok THEN Truncated(c.r) ELSE
    LET time_end == c.off IN
    Let(parse_log_date(Slice(c.r.scratch, 0, time_end)), LAMBDA time :
    IF time.kind # "Ok" THEN Panic(c.r) ELSE
    Let(ScanUntilSlice(Clear(c.r), <<Q, SP>>), LAMBDA d :
    IF ~d.ok THEN Truncated(d.r) ELSE
    LET request_end == d.off
        response_code_start == Len(d.r.scratch)
    IN
    Let(ScanUntil(d.r, SP), LAMBDA e :
    IF ~e.ok THEN Truncated(e.r) ELSE
    LET response_code_end == e.off IN
    IF ~IsUtf8(Slice(e.r.scratch, response_code_start, response_code_end))
    THEN Fail("InvalidText", e.r) ELSE
    Let(ParseUnsigned(Slice(e.r.scratch, response_code_start, response_code_end), U16Hi),
        LAMBDA response_code :
    IF ~response_code.ok THEN Fail("InvalidInteger", e.r) ELSE
    LET bytes_sent_start == Len(e.r.scratch) IN
    Let(ScanUntilSlice(e.r, <<SP, Q>>), LAMBDA f :
    IF ~f.ok THEN Truncated(f.r) ELSE
    LET bytes_sent_end == f.off IN
    IF ~IsUtf8(Slice(f.r.scratch, bytes_sent_start, bytes_sent_end))
    THEN Fail("InvalidText", f.r) ELSE
    Let(ParseUnsigned(Slice(f.r.scratch, bytes_sent_start, bytes_sent_end), U32Hi),
        LAMBDA bytes_sent :
    IF ~bytes_sent.ok THEN Fail("InvalidInteger", f.r) ELSE
    LET referrer_start == Len(f.r.scratch) IN
    Let(ScanUntilSlice(f.r, <<Q, SP, Q>>), LAMBDA g :
    IF ~g.ok THEN Truncated(g.r) ELSE
    LET referrer_end == g.off
        user_agent_start == Len(g.r.scratch)
    IN
    Let(ScanUntilSlice(g.r, <<Q, NL>>), LAMBDA h :
    IF ~h.ok THEN Truncated(h.r) ELSE
    LET user_agent_end == h.off
        buf == h.r.scratch
        code == response_code.val[2]
    IN
    IF ~IsUtf8(Slice(buf, 0, request_end)) THEN Fail("InvalidText", h.r) ELSE
    Let(MethodPath(buf, request_end, code), LAMBDA mp :
    IF ~mp.ok THEN Out("Err", "MalformedRequestLine", NoEntry, h.r, request_end, code) ELSE
    IF ~IsUtf8(Slice(buf, referrer_start, referrer_end)) THEN Fail("InvalidText", h.r) ELSE
    IF ~IsUtf8(Slice(buf, user_agent_start, user_agent_end)) THEN Fail("InvalidText", h.r) ELSE
    Out("Record", "",
        [requestor |-> requestor.val, time |-> time.time,
         method |-> mp.method, path |-> mp.path,
         response_code |-> code, bytes_sent |-> bytes_sent.val,
         referrer |-> <<referrer_start, referrer_end>>,
         user_agent |-> <<user_agent_start, user_agent_end>>],
        h.r, request_end, code))))))))))))))

RECURSIVE read_one(_)
\* read_one without the clear of line 42
read_one_keeps_scratch(r) ==
    Let(ReadByte(r), LAMBDA first :
        IF ~first.ok THEN Out("EndOfStream", "", NoEntry, first.r, -1, -1)
        ELSE IF IsEmptyLine(first.byte) THEN read_one(first.r)
        ELSE ParseRecord(first.r))

read_one(r) ==
    Let(ReadByte(Clear(r)), LAMBDA first :
        IF ~first.ok THEN Out("EndOfStream", "", NoEntry, first.r, -1, -1)
        ELSE IF IsEmptyLine(first.byte) THEN read_one(first.r)
        ELSE ParseRecord(first.r))

\* the text a range of the buffer denotes
View(buf, range) == Slice(buf, range[1], range[2])

\* a returned entry with its borrowed fields copied out of the buffer
Owned(entry, buf) ==
    [entry EXCEPT !.method = View(buf, entry.method), !.path = View(buf, entry.path),
                  !.referrer = View(buf, entry.referrer),
                  !.user_agent = View(buf, entry.user_agent)]

(***************************************************************************)
(* The input.  A well-formed line is written from the values of its fields *)
(* (the format of the sample lines of the test `parsing`): the address in  *)
(* dotted decimal, the timestamp as DD/Mon/YYYY:HH:MM:SS +ZZZZ, the request *)
(* line as method, path and version, status and size in decimal, and no    *)
(* quote inside a quoted field.  The other lines are the sample line with  *)
(* one field, or its end, damaged.                                         *)
(***************************************************************************)

MaxLines == 2

MaxBlank == 1

RECURSIVE FormatDec(_)
FormatDec(n) ==
    IF n < 10 THEN <<DigitChars[n + 1]>>
    ELSE FormatDec(n \div 10) \o <<DigitChars[(n % 10) + 1]>>

RECURSIVE Pad(_, _)
Pad(n, width) ==
    IF width = 0 THEN <<>>
    ELSE Pad(n \div 10, width - 1) \o <<DigitChars[(n % 10) + 1]>>

Abs(n) == IF n < 0 THEN 0 - n ELSE n

FormatIp(ip) ==
    FormatDec(ip[1]) \o <<".">> \o FormatDec(ip[2]) \o <<".">>
        \o FormatDec(ip[3]) \o <<".">> \o FormatDec(ip[4])

FormatTime(t) ==
    Pad(t.day, 2) \o <<"/">> \o MonthNames[t.month] \o <<"/">> \o Pad(t.year, 4)
        \o <<":">> \o Pad(t.hour, 2) \o <<":">> \o Pad(t.minute, 2)
        \o <<":">> \o Pad(t.second, 2) \o <<SP>>
        \o <<IF t.offset_hour < 0 \/ t.offset_minute < 0 THEN "-" ELSE "+">>
        \o Pad(Abs(t.offset_hour), 2) \o Pad(Abs(t.offset_minute), 2)

FormatRequest(req) ==
    IF req = <<>> THEN <<>> ELSE req[1] \o <<SP>> \o req[2] \o <<SP>> \o req[3]

TxtGet == <<"G", "E", "T">>

TxtHead == <<"H", "E", "A", "D">>

TxtEpisode ==
    << "/", "e", "p", "i", "s", "o", "d", "e", "-", "0", "0", "1", ".", "m",
       "4", "a" >>

TxtRoot == <<"/">>

TxtHttp11 == <<"H", "T", "T", "P", "/", "1", ".", "1">>

TxtSiteUrl ==
    << "h", "t", "t", "p", "s", ":", "/", "/", "w", "a", "y", "o", "f", "t",
       "h", "e", "c", "r", "a", "b", ".", "c", "o", "m", "/" >>

TxtDash == <<"-">>

TxtMozilla ==
    << "M", "o", "z", "i", "l", "l", "a", "/", "5", ".", "0", SP, "(", "i",
       "P", "h", "o", "n", "e", ";", SP, "C", "P", "U", SP, "i", "P", "h",
       "o", "n", "e", SP, "O", "S", SP, "1", "6", "_", "4", "_", "1", SP,
       "l", "i", "k", "e", SP, "M", "a", "c", SP, "O", "S", SP, "X", ")" >>

SampleTime ==
    [year |-> 2023, month |-> 5, day |-> 8, hour |-> 15, minute |-> 8, second |-> 30,
     offset_hour |-> 0, offset_minute |-> 0]

LeapDayTime ==
    [year |-> 2024, month |-> 2, day |-> 29, hour |-> 23, minute |-> 59, second |-> 59,
     offset_hour |-> -5, offset_minute |-> -30]

\* the first sample line of the test `parsing`
SampleValue ==
    [ip |-> <<172, 56, 208, 121>>, time |-> SampleTime,
     request |-> <<TxtGet, TxtEpisode, TxtHttp11>>, status |-> 206, bytes |-> 212698,
     referrer |-> TxtSiteUrl, ua |-> TxtMozilla]

\* the second one
SampleValue2 == [SampleValue EXCEPT !.bytes = 303]

WFValues ==
    [ip : {<<172, 56, 208, 121>>, <<10, 0, 0, 255>>},
     time : {SampleTime, LeapDayTime},
     request : {<<TxtGet, TxtEpisode, TxtHttp11>>, <<TxtHead, TxtRoot, TxtHttp11>>, <<>>},
     status : {206, 400},
     bytes : {212698, 303, 0},
     referrer : {TxtSiteUrl, TxtDash},
     ua : {TxtMozilla, TxtDash}]

\* the text of each field of a well-formed line
RawOf(v) ==
    [requestor |-> FormatIp(v.ip), user |-> TxtDash, time |-> FormatTime(v.time),
     request |-> FormatRequest(v.request), status |-> FormatDec(v.status),
     bytes |-> FormatDec(v.bytes), referrer |-> v.referrer, ua |-> v.ua,
     tail |-> <<Q, NL>>]

FormatLine(raw) ==
    raw.requestor \o <<SP, "-", SP>> \o raw.user \o <<SP, "[">> \o raw.time
        \o <<"]", SP, Q>> \o raw.request \o <<Q, SP>> \o raw.status \o <<SP>>
        \o raw.bytes \o <<SP, Q>> \o raw.referrer \o <<Q, SP, Q>> \o raw.ua \o raw.tail

\* the entry a well-formed line stands for
Expected(v) ==
    [requestor |-> v.ip, time |-> v.time,
     method |-> IF v.request = <<>> \/ v.status = 400 THEN <<>> ELSE v.request[1],
     path |-> IF v.request = <<>> \/ v.status = 400 THEN <<>> ELSE v.request[2],
     response_code |-> v.status,
     bytes_sent |-> <<v.bytes \div LimbBase, v.bytes % LimbBase>>,
     referrer |-> v.referrer, user_agent |-> v.ua]

WFLine(v) == [raw |-> RawOf(v), wf |-> TRUE, val |-> v]

Damaged(raw) == [raw |-> raw, wf |-> FALSE, val |-> SampleValue]

SampleRaw == RawOf(SampleValue)

OddRequestors ==
    { <<"x">>,
      <<"1", ".", "2", ".", "3">>,
      <<"1", ".", "2", ".", "3", ".", "4", SP>>,
      <<"2", "5", "6", ".", "1", ".", "1", ".", "1">>,
      <<"0", "1", ".", "2", ".", "3", ".", "4">>,
      <<"1", ".", "2", ".", "3", ".", "4", BAD>> }

OddTimes ==
    { <<>>,
      <<"0", "8">>,
      <<"0", "8", "/", "M", "a", "y", "/", "2", "0", "2", "3", ":", "1", "5", ":", "0", "8", ":", "3", "0">>,
      <<"0", "8", "-", "M", "a", "y", "-", "2", "0", "2", "3", ":", "1", "5", ":", "0", "8", ":", "3", "0", SP, "+", "0", "0", "0", "0">>,
      <<"3", "2", "/", "M", "a", "y", "/", "2", "0", "2", "3", ":", "1", "5", ":", "0", "8", ":", "3", "0", SP, "+", "0", "0", "0", "0">>,
      <<"3", "0", "/", "F", "e", "b", "/", "2", "0", "2", "3", ":", "1", "5", ":", "0", "8", ":", "3", "0", SP, "+", "0", "0", "0", "0">>,
      <<"0", "8", "/", "F", "o", "o", "/", "2", "0", "2", "3", ":", "1", "5", ":", "0", "8", ":", "3", "0", SP, "+", "0", "0", "0", "0">>,
      <<"0", "8", "/", "M", "a", "y", "/", "2", "0", "2", "3", ":", "2", "4", ":", "0", "8", ":", "3", "0", SP, "+", "0", "0", "0", "0">>,
      <<"0", "8", "/", "M", "a", "y", "/", "2", "0", "2", "3", ":", "1", "5", ":", "0", "8", ":", "3", "0", SP>>,
      <<"0", "8", "/", "M", "a", "y", "/", "2", "0", "2", "3", ":", "1", "5", ":", "0", "8", ":", "3", "0", SP, "+", "0", "0", "0", "0", "Z">>,
      <<"0", "8", "/", "M", "a", "y", "/", "2", "0", "2", "3", ":", "1", "5", ":", "0", "8", ":", "3", "0", SP, "+", "0", "0">>,
      <<"0", "8", "/", "M", "a", "y", "/", "2", "0", "2", "3">>,
      <<"0", "8", "/", "M", "a", "y", "/", "2", "0", "2", "3", ":", "1", "5", ":", "0", "8", ":", "3", "0", "+", "0", "0", "0", "0">> }

OddRequests ==
    { <<"G", "E", "T", SP, "/", "e">>,
      <<"G", "E", "T">>,
      <<"G", "E", "T", SP, SP, "/", "e", SP, "H">>,
      <<SP>>,
      <<SP, SP>>,
      <<"a", Q, "b", SP, "c", SP, "d">>,
      <<"G", SP, "/", "e", SP, "H", Q>>,
      <<"G", BAD, SP, "/", "e", SP, "H">> }

OddStatuses ==
    { <<>>,
      <<"6", "5", "5", "3", "5">>,
      <<"6", "5", "5", "3", "6">>,
      <<"2", "x">>,
      <<"+", "2", "0", "0">>,
      <<"-", "1">>,
      <<"0", "2", "0", "0">>,
      <<"9", "9", "9", "9", "9", "9", "9", "9", "9", "9", "9">> }

OddSizes ==
    { <<>>,
      <<"4", "2", "9", "4", "9", "6", "7", "2", "9", "5">>,
      <<"4", "2", "9", "4", "9", "6", "7", "2", "9", "6">>,
      <<"x">>,
      <<"+", "5">>,
      <<"0", "0", "7">>,
      <<"4", "2", "9", "4", "9", "6", "7", "2", "9", "5", "0">> }

OddReferrers ==
    { <<"a", Q, "b">>,
      <<"a", Q>>,
      <<BAD>> }

OddAgents ==
    { <<"a", Q>>,
      <<"a", Q, "b">>,
      <<>>,
      <<"a", BAD>>,
      <<"a", NL, "b">> }

OddTails ==
    { <<NL>>,
      <<Q>> }

DamagedLines ==
    {Damaged([SampleRaw EXCEPT !.requestor = x]) : x \in OddRequestors}
    \cup {Damaged([SampleRaw EXCEPT !.time = x]) : x \in OddTimes}
    \cup {Damaged([SampleRaw EXCEPT !.request = x, !.status = FormatDec(s)]) :
              x \in OddRequests, s \in {206, 400}}
    \cup {Damaged([SampleRaw EXCEPT !.status = x]) : x \in OddStatuses}
    \cup {Damaged([SampleRaw EXCEPT !.bytes = x]) : x \in OddSizes}
    \cup {Damaged([SampleRaw EXCEPT !.referrer = x]) : x \in OddReferrers}
    \cup {Damaged([SampleRaw EXCEPT !.ua = x]) : x \in OddAgents}
    \cup {Damaged([SampleRaw EXCEPT !.tail = x]) : x \in OddTails}

FirstLines == {WFLine(v) : v \in WFValues} \cup DamagedLines

\* the lines that follow the first one
NextLines == {WFLine(SampleValue2), WFLine([SampleValue EXCEPT !.request = <<>>, !.status = 400])}

Blank(k) == [i \in 1..k |-> NL]

RECURSIVE Interleave(_, _)
Interleave(lines, blanks) ==
    Blank(blanks[1]) \o
        (IF lines = <<>> THEN <<>>
         ELSE FormatLine(lines[1].raw) \o Interleave(Tail(lines), Tail(blanks)))

\* the source a feed stands for: its lines, blanks[i] empty lines before the
\* i-th and blanks[n+1] after the last, cut to `cut` bytes unless cut < 0
Build(f) ==
    LET s == Interleave(f.lines, f.blanks) IN
    IF f.cut < 0 THEN s ELSE SubSeq(s, 1, f.cut)

NoBlanks(n) == [i \in 1..(n + 1) |-> 0]

Feed(lines, blanks, cut) == [lines |-> lines, blanks |-> blanks, cut |-> cut]

\* any first line, then sample lines
PlainFeeds ==
    {Feed(<<>>, <<0>>, -1)}
    \cup UNION {{Feed(<<l>> \o rest, NoBlanks(n), -1) :
                    l \in FirstLines, rest \in [1..(n - 1) -> NextLines]} :
                n \in 1..MaxLines}

\* sample lines with empty lines before, between and after them
BlankFeeds ==
    UNION {{Feed(lines, blanks, -1) :
                lines \in [1..n -> NextLines], blanks \in [1..(n + 1) -> 0..MaxBlank]} :
           n \in 0..MaxLines}

TwoSamples == <<WFLine(SampleValue), WFLine(SampleValue2)>>

\* the two sample lines, an empty line between them, cut at every byte
CutFeeds ==
    {Feed(TwoSamples, <<0, 1, 0>>, cut) :
         cut \in 0..(Len(Interleave(TwoSamples, <<0, 1, 0>>)) - 1)}

Feeds == PlainFeeds \cup BlankFeeds \cup CutFeeds

(***************************************************************************)
(* The program: aggregate_logs builds a LogReader over the source and      *)
(* calls read_one until it returns None or fails.                          *)
(***************************************************************************)

NoResult ==
    [kind |-> "None", err |-> "", entry |-> NoEntry, request_end |-> -1,
     response_code |-> -1, before |-> <<>>]

Init ==
    /\ fed \in Feeds
    /\ source = Build(fed)
    /\ scratch = <<>>
    /\ pc = "call"
    /\ result = NoResult
    /\ returned = <<>>
    /\ kept = 0

\* `while let Some(log) = logs.read_one()?`
ReadOneCall ==
    /\ pc = "call"
    /\ \E out \in {read_one([source |-> source, scratch |-> scratch])} :
       /\ source' = out.r.source
       /\ scratch' = out.r.scratch
       /\ result' = [kind |-> out.kind, err |-> out.err, entry |-> out.entry,
                     request_end |-> out.request_end,
                     response_code |-> out.response_code, before |-> source]
       /\ returned' = IF out.kind = "Record"
                      THEN Append(returned, Owned(out.entry, out.r.scratch))
                      ELSE returned
       /\ pc' = CASE out.kind = "Record" -> "body"
                  [] out.kind = "EndOfStream" -> "done"
                  [] out.kind = "Err" -> "failed"
                  [] OTHER -> "aborted"
    /\ UNCHANGED <<kept, fed>>

\* the filter of line 151: a 2xx GET is kept, anything else skipped
Filtered(entry, buf) ==
    \/ entry.response_code < 200
    \/ entry.response_code > 299
    \/ View(buf, entry.method) # TxtGet

\* the loop body: it reads the entry and leaves the reader alone
LoopBody ==
    /\ pc = "body"
    /\ kept' = IF Filtered(result.entry, scratch) THEN kept ELSE kept + 1
    /\ pc' = "call"
    /\ UNCHANGED <<source, scratch, result, returned, fed>>

Next == ReadOneCall \/ LoopBody

Spec == Init /\ [][Next]_vars

(***************************************************************************)
(* The scanner alone: scan_until_slice applied, again and again, to the    *)
(* delimiters of read_one over every short source.                         *)
(***************************************************************************)

MaxScanLen == 5

ScanAlphabet == {SP, "-", Q, NL, "]", "a"}

\* the six delimiters read_one scans for (lines 54-74)
Delimiters ==
    { <<SP, "-", SP>>, <<"]", SP, Q>>, <<Q, SP>>, <<SP, Q>>, <<Q, SP, Q>>, <<Q, NL>> }

ScanInputs == UNION {[1..n -> ScanAlphabet] : n \in 0..MaxScanLen}

ScanInit ==
    /\ source \in ScanInputs
    /\ scratch = <<>>
    /\ pc = "scan"
    /\ result = [kind |-> "None", ok |-> FALSE, off |-> 0, delim |-> <<>>,
                 before |-> <<>>, base |-> 0]
    /\ returned = <<>>
    /\ kept = 0
    /\ fed = <<>>

ScanCall ==
    /\ pc = "scan"
    /\ source # <<>>
    /\ \E s \in Delimiters :
         \E out \in {ScanUntilSlice([source |-> source, scratch |-> scratch], s)} :
           /\ source' = out.r.source
           /\ scratch' = out.r.scratch
           /\ result' = [kind |-> "Scan", ok |-> out.ok, off |-> out.off, delim |-> s,
                         before |-> source, base |-> Len(scratch)]
    /\ UNCHANGED <<pc, returned, kept, fed>>

ScanNext == ScanCall

ScanSpec == ScanInit /\ [][ScanNext]_vars

(***************************************************************************)
(* The claims.                                                             *)
(***************************************************************************)

\* the index at which the first occurrence of s in src begins, 0 if none
FirstOccurrence(src, s) ==
    IF \E i \in 1..(Len(src) - Len(s) + 1) : SubSeq(src, i, i + Len(s) - 1) = s
    THEN CHOOSE i \in 1..(Len(src) - Len(s) + 1) :
             /\ SubSeq(src, i, i + Len(s) - 1) = s
             /\ \A j \in 1..(i - 1) : SubSeq(src, j, j + Len(s) - 1) # s
    ELSE 0

\* C2: scan_until_slice(s) returns the scratch offset at which the first
\* occurrence of s in the bytes still to be read begins, and fails only when
\* s does not occur in them.
C2_FirstOccurrence ==
    result.kind = "Scan" =>
        LET at == FirstOccurrence(result.before, result.delim) IN
        IF at = 0 THEN ~result.ok
        ELSE result.ok /\ result.off = result.base + at - 1

\* the bytes the last call took from the source
Consumed == SubSeq(result.before, 1, Len(result.before) - Len(source))

\* a byte string without the empty lines it starts with
Attempt(bytes) ==
    IF \E i \in 1..Len(bytes) : bytes[i] # NL
    THEN From(bytes, (CHOOSE i \in 1..Len(bytes) :
                          bytes[i] # NL /\ \A j \in 1..(i - 1) : bytes[j] = NL) - 1)
    ELSE <<>>

Last(seq) == seq[Len(seq)]

Called == result.kind # "None"

WellFormedFeed ==
    /\ fed.cut < 0
    /\ \A i \in 1..Len(fed.lines) : fed.lines[i].wf

\* C1: on a source made of N well-formed lines, each ending in a quote and a
\* newline, the calls return one record per line, in order and with the
\* values the line was written from, never fail, and return EndOfStream
\* exactly after the N-th record.
C1_RoundTrip ==
    WellFormedFeed =>
        /\ pc \notin {"failed", "aborted"}
        /\ Len(returned) <= Len(fed.lines)
        /\ \A i \in 1..Len(returned) : returned[i] = Expected(fed.lines[i].val)
        /\ pc = "done" => Len(returned) = Len(fed.lines)

\* the two sample lines of the test, both returned, then EndOfStream
C1_Witness ==
    /\ pc = "done"
    /\ fed = Feed(TwoSamples, <<0, 0, 0>>, -1)
    /\ Len(returned) = 2
    /\ returned[1].path = TxtEpisode
    /\ returned[1].bytes_sent = <<212698 \div LimbBase, 212698 % LimbBase>>
    /\ returned[2].bytes_sent = <<0, 303>>

\* Whether a call on `before` runs into the end of the source: with one more
\* byte behind `before`, the same call reads that byte.
HitsEnd(before) ==
    \E out \in {read_one([source |-> before \o <<"#">>, scratch |-> <<>>])} :
        out.r.source = <<>>

\* C3: a call returns EndOfStream only when the first read of a record
\* attempt (after the empty lines it skipped) hits the end of the source; a
\* call that hits the end at any later read fails with StreamTruncated and
\* returns neither EndOfStream nor a record.
C3_EndOnlyAtBoundary ==
    Called =>
        /\ result.kind = "EndOfStream" =>
               HitsEnd(result.before) /\ Attempt(result.before) = <<>>
        /\ (HitsEnd(result.before) /\ Attempt(result.before) = <<>>) =>
               result.kind = "EndOfStream"
        /\ (HitsEnd(result.before) /\ Attempt(result.before) # <<>>) =>
               result.kind = "Err" /\ result.err = "StreamTruncated"
        /\ result.err = "StreamTruncated" =>
               HitsEnd(result.before) /\ source = <<>>

\* the source cut inside its second record: one record, then the error
C3_Witness ==
    /\ fed.cut >= 0
    /\ Len(returned) = 1
    /\ result.kind = "Err"
    /\ result.err = "StreamTruncated"
    /\ Attempt(result.before) # <<>>
    /\ source = <<>>

\* C4: empty lines at a record boundary are invisible.  Wherever a call is
\* about to start, the same source with empty lines put before it gives the
\* same result, buffer and remaining source; and on a source of line
\* terminators alone the first call returns EndOfStream.
C4_BlankLinesInvisible ==
    /\ pc = "call" =>
           \A k \in 1..(MaxBlank + 1) :
               \E plain \in {read_one([source |-> source, scratch |-> scratch])} :
               \E blank \in {read_one([source |-> Blank(k) \o source, scratch |-> scratch])} :
                   blank = plain
    /\ (Called /\ fed.lines = <<>>) => result.kind = "EndOfStream" /\ pc = "done"

\* an empty line before, between and after two lines: two records, then the end
C4_Witness ==
    /\ pc = "done"
    /\ Len(fed.lines) = 2
    /\ fed.blanks = <<1, 1, 1>>
    /\ fed.cut < 0
    /\ Len(returned) = 2

\* C5: a returned record whose status is 400 or whose request line is empty
\* has an empty method and an empty path, and no call fails with
\* MalformedRequestLine on such a line.
C5_EmptyMethodPath ==
    /\ (result.kind = "Record" /\ (result.response_code = 400 \/ result.request_end = 0)) =>
           /\ View(scratch, result.entry.method) = <<>>
           /\ View(scratch, result.entry.path) = <<>>
           /\ Last(returned).method = <<>>
           /\ Last(returned).path = <<>>
    /\ result.err = "MalformedRequestLine" =>
           result.response_code # 400 /\ result.request_end # 0

\* status 400 with a request line that has no space at all
C5_Witness ==
    /\ result.kind = "Record"
    /\ result.response_code = 400
    /\ Slice(scratch, 0, result.request_end) = TxtGet
    /\ Last(returned).method = <<>>

\* the tokens of a text, separated by spaces
RECURSIVE Tokens(_)
Tokens(bytes) ==
    IF bytes = <<>> THEN <<>>
    ELSE IF Head(bytes) = SP THEN Tokens(Tail(bytes))
    ELSE Let(ScanLength(bytes, SP), LAMBDA n :
             IF bytes[n] = SP
             THEN <<SubSeq(bytes, 1, n - 1)>> \o Tokens(From(bytes, n))
             ELSE <<bytes>>)

\* C6: for a request line that is not empty, with a status other than 400,
\* the call yields the first two tokens of the line as method and path when
\* it has two or more, and fails with MalformedRequestLine only when it has
\* fewer.
C6_FirstTwoTokens ==
    (/\ result.kind = "Record" \/ result.err = "MalformedRequestLine"
     /\ result.request_end # 0
     /\ result.response_code # 400) =>
        LET tokens == Tokens(Slice(scratch, 0, result.request_end)) IN
        IF Len(tokens) >= 2
        THEN /\ result.kind = "Record"
             /\ View(scratch, result.entry.method) = tokens[1]
             /\ View(scratch, result.entry.path) = tokens[2]
        ELSE result.err = "MalformedRequestLine"

\* C7: a malformed record, a malformed timestamp among them, makes read_one
\* return an error; the call never aborts the program.
C7_NeverAborts == result.kind # "Panic" /\ pc # "aborted"

\* C9: the bytes a successful call takes after the empty lines it skipped
\* hold a line terminator only as their last byte.
C9_OneLinePerRecord ==
    result.kind = "Record" =>
        \A i \in 1..Len(Attempt(Consumed)) :
            Attempt(Consumed)[i] = NL => i = Len(Attempt(Consumed))

\* a decimal numeral: one or more ASCII digits, after at most one + sign
Unsigned(text) == IF text # <<>> /\ text[1] = "+" THEN Tail(text) ELSE text

IsDecimalText(text) ==
    /\ Unsigned(text) # <<>>
    /\ \A i \in 1..Len(Unsigned(text)) : IsDigit(Unsigned(text)[i])

\* its digits without the leading zeros
Canon(text) ==
    LET d == Unsigned(text) IN
    IF \E i \in 1..Len(d) : d[i] # "0"
    THEN From(d, (CHOOSE i \in 1..Len(d) : d[i] # "0" /\ \A j \in 1..(i - 1) : d[j] = "0") - 1)
    ELSE <<"0">>

\* a <= b, for two numerals without leading zeros
DecLE(a, b) ==
    \/ Len(a) < Len(b)
    \/ /\ Len(a) = Len(b)
       /\ \/ a = b
          \/ \E i \in 1..Len(a) :
                 /\ DigitVal(a[i]) < DigitVal(b[i])
                 /\ \A j \in 1..(i - 1) : a[j] = b[j]

MaxU16Text == <<"6", "5", "5", "3", "5">>

MaxU32Text == <<"4", "2", "9", "4", "9", "6", "7", "2", "9", "5">>

ValidU16(text) == IsDecimalText(text) /\ DecLE(Canon(text), MaxU16Text)

ValidU32(text) == IsDecimalText(text) /\ DecLE(Canon(text), MaxU32Text)

\* the decimal numeral of a value held in two limbs
RECURSIVE FormatLimbs(_)
FormatLimbs(v) ==
    IF v[1] = 0 /\ v[2] < 10 THEN <<DigitChars[v[2] + 1]>>
    ELSE Let((v[1] % 10) * LimbBase + v[2], LAMBDA low :
             FormatLimbs(<<v[1] \div 10, low \div 10>>) \o <<DigitChars[(low % 10) + 1]>>)

\* the text of the status field in the buffer of a returned record: what
\* follows the quote and space after the request line, up to the next space
StatusText ==
    Let(From(scratch, result.request_end + 2), LAMBDA rest :
        SubSeq(rest, 1, ScanLength(rest, SP) - 1))

\* the text of the size field: what follows, up to the space and quote
SizeText ==
    Let(From(scratch, result.request_end + 2), LAMBDA rest :
        Let(From(rest, ScanLength(rest, SP)), LAMBDA size :
            SubSeq(size, 1, FirstOccurrence(size, <<SP, Q>>) - 1)))

\* the first line is the sample line but for its status and size
OnlyNumbersChanged ==
    /\ fed.cut < 0
    /\ Len(fed.lines) >= 1
    /\ [fed.lines[1].raw EXCEPT !.status = SampleRaw.status, !.bytes = SampleRaw.bytes]
           = SampleRaw

InBounds(range) == 0 <= range[1] /\ range[1] <= range[2] /\ range[2] <= Len(scratch)

Disjoint(a, b) == a[2] <= b[1] \/ b[2] <= a[1]

\* C10: the buffer holds bytes of the current call only (it is a suffix of
\* what that call took from the source); the text fields of a returned record
\* are in-bounds, pairwise disjoint ranges of it; and from the return until
\* the next call they still read what was returned.
C10_ScratchOwnsFields ==
    /\ Called =>
           /\ Len(scratch) <= Len(Consumed)
           /\ scratch = From(Consumed, Len(Consumed) - Len(scratch))
    /\ result.kind = "Record" =>
           LET e == result.entry IN
           /\ InBounds(e.method) /\ InBounds(e.path)
           /\ InBounds(e.referrer) /\ InBounds(e.user_agent)
           /\ Disjoint(e.method, e.path) /\ Disjoint(e.method, e.referrer)
           /\ Disjoint(e.method, e.user_agent) /\ Disjoint(e.path, e.referrer)
           /\ Disjoint(e.path, e.user_agent) /\ Disjoint(e.referrer, e.user_agent)
           /\ Owned(e, scratch) = Last(returned)

\* the second record has been returned and the loop body has run over it
C10_Witness ==
    /\ pc = "call"
    /\ result.kind = "Record"
    /\ Len(returned) = 2
    /\ View(scratch, result.entry.method) = TxtGet
    /\ View(scratch, result.entry.user_agent) = TxtMozilla
    /\ Last(returned).bytes_sent = <<0, 303>>

=============================================================================
